---- MODULE Spec2Model ----
(***************************************************************************)
(* Model of ignite.distributed.launcher.Parallel: the constructor with its *)
(* argument validation, _setup_spawn_params, run, __enter__ and __exit__,  *)
(* together with the calls they make to ignite.distributed.utils (idist)   *)
(* and to the user's function.                                             *)
(***************************************************************************)
EXTENDS Integers, Sequences, FiniteSets, TLC

\* ---------------------------------------------------------------- bounds
MaxProcs == 4
MaxNodes == 2
MaxCalls == 3
MaxLocalRank == 1

\* ------------------------------------------------- Python's None / values
\* An Optional value is a sequence of length at most one.
None == <<>>
Some(v) == <<v>>
Val(o) == o[1]

\* ------------------------------------------------------- the environment
\* idist.available_backends(): the backends of this build.
AvailableBackends == {"nccl"}

\* The functions handed to run() and their arguments (*args, **kwargs).
Funcs == {"training"}
CallArgs == { [args |-> <<1, 2>>, kwargs |-> [a |-> 1]] }

\* The names of the keyword parameters of __init__ that are not **spawn_kwargs.
TopologyKeys == {"nproc_per_node", "nnodes", "node_rank", "master_addr", "master_port"}

\* Keys that can arrive in **spawn_kwargs: Python binds a keyword named as a
\* declared parameter to that parameter, so these are never TopologyKeys.
ExtraKeys == {"start_method", "join"}

\* ------------------------------------------------- constructor arguments
BackendArgs == {None} \cup {Some(b) : b \in AvailableBackends \cup {"bogus"}}
ProcArgs == {None} \cup {Some(n) : n \in 0..MaxProcs}
NodeArgs == {None} \cup {Some(n) : n \in 0..MaxNodes}
RankArgs == {None} \cup {Some(n) : n \in (-1)..MaxNodes}
AddrArgs == {None, Some("master")}
PortArgs == {None, Some(3344)}
KwargArgs == UNION {[S -> {None, Some("fork")}] : S \in SUBSET ExtraKeys}

VARIABLES
  status,        \* "new": not constructed; "ready": __init__ returned; "ValueError": it raised
  args,          \* the arguments __init__ was called with (None before the call)
  backend,       \* self.backend
  spawn_params,  \* self._spawn_params (None or Some(dict))
  logger,        \* self.logger: "unset", "rank0" (distributed_rank=0) or "auto"
  localRank,     \* what idist.get_local_rank() returns in this process
  calls,         \* the public methods called on the launcher so far
  trace,         \* the calls made to idist and to the user's function, in order
  log            \* the messages passed to self.logger.info, in order

vars == <<status, args, backend, spawn_params, logger, localRank, calls, trace, log>>

\* ------------------------------------------------------ dict operations
\* dict.update
Update(d, e) == [k \in (DOMAIN d) \cup (DOMAIN e) |-> IF k \in DOMAIN e THEN e[k] ELSE d[k]]

\* {k: v for k, v in params.items() if v is not None}
DropNone(d) == [k \in {j \in DOMAIN d : d[j] # None} |-> Val(d[k])]

\* ------------------------------------------------- _setup_spawn_params
BuildParamsSwapped(np, nn, nr, ma, mp, kw) ==
  DropNone(Update([k \in TopologyKeys |->
                     CASE k = "nproc_per_node" -> Some(np)
                       [] k = "nnodes" -> Some(nr)
                       [] k = "node_rank" -> Some(nn)
                       [] k = "master_addr" -> ma
                       [] k = "master_port" -> mp], kw))

\* params = {...}; params.update(spawn_kwargs); return the non-None items.
BuildParams(np, nn, nr, ma, mp, kw) ==
  DropNone(Update([k \in TopologyKeys |->
                     CASE k = "nproc_per_node" -> Some(np)
                       [] k = "nnodes" -> Some(nn)
                       [] k = "node_rank" -> Some(nr)
                       [] k = "master_addr" -> ma
                       [] k = "master_port" -> mp], kw))

NodeRankOutOfRangeOffByOne(node_rank, nnodes) == node_rank > nnodes \/ node_rank < 0

\* node_rank >= nnodes or node_rank < 0
NodeRankOutOfRange(node_rank, nnodes) == node_rank >= nnodes \/ node_rank < 0

Fail(msg) == [ok |-> FALSE, err |-> msg, params |-> <<>>]

\* np is an integer; nn, nr, ma, mp are Optional; kw is the **spawn_kwargs dict.
SetupSpawnParams(np, nn, nr, ma, mp, kw) ==
  IF np < 1 THEN Fail("nproc_per_node should positive")
  ELSE LET nnodes == IF nn = None THEN 1 ELSE Val(nn) IN
    IF nnodes < 1 THEN Fail("nnodes should positive")
    ELSE IF nr = None /\ nnodes > 1 THEN Fail("node_rank should be given")
    ELSE LET node_rank == IF nr = None THEN 0 ELSE Val(nr) IN
      IF NodeRankOutOfRange(node_rank, nnodes) THEN Fail("node_rank should be between")
      ELSE IF nnodes > 1 /\ (ma = None \/ mp = None)
        THEN Fail("master_addr and master_port should be specified")
      ELSE [ok |-> TRUE, err |-> "", params |-> BuildParams(np, nnodes, node_rank, ma, mp, kw)]

\* ------------------------------------------------------------- __init__
TopologyGivenTruthy(a) ==
  \/ (a.nproc_per_node # None /\ Val(a.nproc_per_node) # 0)
  \/ (a.nnodes # None /\ Val(a.nnodes) # 0)
  \/ (a.node_rank # None /\ Val(a.node_rank) # 0)
  \/ a.master_addr # None
  \/ a.master_port # None

\* The loop over arg_names/arg_values finds a value that is not None.
TopologyGiven(a) ==
  \/ a.nproc_per_node # None
  \/ a.nnodes # None
  \/ a.node_rank # None
  \/ a.master_addr # None
  \/ a.master_port # None

QAvail == [op |-> "available_backends"]

\* The outcome of Parallel(**a): the attributes assigned before __init__
\* returned or raised, the idist calls it made and the lines it logged.
ParallelInit(a) ==
  IF a.backend # None /\ Val(a.backend) \notin AvailableBackends
    THEN \* raise at line 168; the message calls available_backends() again
         [status |-> "ValueError", backend |-> None, spawn_params |-> None,
          logger |-> "unset", trace |-> <<QAvail, QAvail>>, log |-> <<>>]
  ELSE IF a.backend = None /\ TopologyGiven(a)
    THEN \* raise at line 176
         [status |-> "ValueError", backend |-> None, spawn_params |-> None,
          logger |-> "unset", trace |-> <<>>, log |-> <<>>]
  ELSE LET q == IF a.backend # None THEN <<QAvail>> ELSE <<>> IN
    IF a.backend # None /\ a.nproc_per_node # None
      THEN LET r == SetupSpawnParams(Val(a.nproc_per_node), a.nnodes, a.node_rank,
                                     a.master_addr, a.master_port, a.spawn_kwargs) IN
           IF r.ok
             THEN [status |-> "ready", backend |-> a.backend, spawn_params |-> Some(r.params),
                   logger |-> "rank0", trace |-> q,
                   log |-> <<"Initialized distributed launcher", "Parameters to spawn processes">>]
             ELSE \* self.backend and self.logger were assigned before the raise
                  [status |-> "ValueError", backend |-> a.backend, spawn_params |-> None,
                   logger |-> "rank0", trace |-> q, log |-> <<>>]
      ELSE [status |-> "ready", backend |-> a.backend, spawn_params |-> None,
            logger |-> "rank0", trace |-> q, log |-> <<>>]

Init ==
  /\ status = "new"
  /\ args = None
  /\ backend = None
  /\ spawn_params = None
  /\ logger = "unset"
  /\ localRank \in 0..MaxLocalRank
  /\ calls = <<>>
  /\ trace = <<>>
  /\ log = <<>>

Construct ==
  /\ status = "new"
  /\ \E b \in BackendArgs, np \in ProcArgs, nn \in NodeArgs, nr \in RankArgs,
        ma \in AddrArgs, mp \in PortArgs, kw \in KwargArgs :
       LET a == [backend |-> b, nproc_per_node |-> np, nnodes |-> nn, node_rank |-> nr,
                 master_addr |-> ma, master_port |-> mp, spawn_kwargs |-> kw]
           r == ParallelInit(a)
       IN /\ args' = Some(a)
          /\ status' = r.status
          /\ backend' = r.backend
          /\ spawn_params' = r.spawn_params
          /\ logger' = r.logger
          /\ trace' = r.trace
          /\ log' = r.log
  /\ UNCHANGED <<localRank, calls>>

\* ------------------------------------------------------------------ run
Run ==
  /\ status = "ready"
  /\ Len(calls) < MaxCalls
  /\ \E f \in Funcs, ca \in CallArgs, raises \in BOOLEAN :
       /\ calls' = Append(calls, [op |-> "run", raised |-> raises, func |-> f,
                                  args |-> ca.args, kwargs |-> ca.kwargs])
       /\ IF spawn_params # None
            THEN /\ trace' = Append(trace,
                       [op |-> "spawn", backend |-> backend, func |-> f, args |-> ca.args,
                        kwargs_dict |-> ca.kwargs, params |-> Val(spawn_params)])
                 /\ log' = log \o <<"Spawn function">>
                               \o (IF raises THEN <<>> ELSE <<"End of run">>)
            ELSE /\ trace' = trace \o
                       << [op |-> "get_world_size"],
                          [op |-> "get_local_rank", result |-> localRank],
                          [op |-> "func", func |-> f, local_rank |-> localRank,
                           args |-> ca.args, kwargs |-> ca.kwargs] >>
                 /\ log' = log \o <<"Run">>
                               \o (IF raises THEN <<>> ELSE <<"End of run">>)
  /\ UNCHANGED <<status, args, backend, spawn_params, logger, localRank>>

\* ------------------------------------------------------------ __enter__
EnterNoSpawnCheck ==
  /\ status = "ready"
  /\ Len(calls) < MaxCalls
  /\ calls' = Append(calls, [op |-> "enter", raised |-> FALSE])
  /\ IF backend # None
       THEN /\ trace' = Append(trace, [op |-> "initialize", backend |-> backend])
            /\ logger' = "auto"
            /\ log' = Append(log, "Initialized processing group")
       ELSE UNCHANGED <<trace, logger, log>>
  /\ UNCHANGED <<status, args, backend, spawn_params, localRank>>

EnterNoBackendCheck ==
  /\ status = "ready"
  /\ Len(calls) < MaxCalls
  /\ calls' = Append(calls, [op |-> "enter", raised |-> FALSE])
  /\ IF spawn_params = None
       THEN /\ trace' = Append(trace, [op |-> "initialize", backend |-> backend])
            /\ logger' = "auto"
            /\ log' = Append(log, "Initialized processing group")
       ELSE UNCHANGED <<trace, logger, log>>
  /\ UNCHANGED <<status, args, backend, spawn_params, localRank>>

Enter ==
  /\ status = "ready"
  /\ Len(calls) < MaxCalls
  /\ calls' = Append(calls, [op |-> "enter", raised |-> FALSE])
  /\ IF backend # None /\ spawn_params = None
       THEN /\ trace' = Append(trace, [op |-> "initialize", backend |-> backend])
            /\ logger' = "auto"
            /\ log' = Append(log, "Initialized processing group")
       ELSE UNCHANGED <<trace, logger, log>>
  /\ UNCHANGED <<status, args, backend, spawn_params, localRank>>

\* ------------------------------------------------------------- __exit__
\* __exit__ that releases the group only when the body left no exception.
ExitOnlyOnSuccess ==
  /\ status = "ready"
  /\ Len(calls) < MaxCalls
  /\ calls' = Append(calls, [op |-> "exit", raised |-> FALSE])
  /\ IF backend # None /\ spawn_params = None
        /\ ~(calls # <<>> /\ calls[Len(calls)].raised)
       THEN /\ log' = Append(log, "Finalized processing group")
            /\ trace' = Append(trace, [op |-> "finalize"])
       ELSE UNCHANGED <<trace, log>>
  /\ UNCHANGED <<status, args, backend, spawn_params, logger, localRank>>

Exit ==
  /\ status = "ready"
  /\ Len(calls) < MaxCalls
  /\ calls' = Append(calls, [op |-> "exit", raised |-> FALSE])
  /\ IF backend # None /\ spawn_params = None
       THEN /\ log' = Append(log, "Finalized processing group")
            /\ trace' = Append(trace, [op |-> "finalize"])
       ELSE UNCHANGED <<trace, log>>
  /\ UNCHANGED <<status, args, backend, spawn_params, logger, localRank>>

Next == Construct \/ Enter \/ Run \/ Exit

Spec == Init /\ [][Next]_vars

TypeOK ==
  /\ status \in {"new", "ready", "ValueError"}
  /\ logger \in {"unset", "rank0", "auto"}
  /\ Len(calls) <= MaxCalls

\* ------------------------------------------------ reading the histories
\* The calls that act on the process group, spawn workers or run user code;
\* the remaining entries of the trace are read-only queries.
ActingOps == {"initialize", "finalize", "spawn", "func"}
IsActing(e) == e.op \in ActingOps
Acting(t) == SelectSeq(t, IsActing)

IsRun(c) == c.op = "run"
RunCalls == SelectSeq(calls, IsRun)
CallOps == [i \in 1..Len(calls) |-> calls[i].op]
CountOp(t, o) == Cardinality({i \in DOMAIN t : t[i].op = o})

AttachMode == status = "ready" /\ backend # None /\ spawn_params = None
SpawnMode == status = "ready" /\ spawn_params # None
NoBackend == status = "ready" /\ backend = None

\* What run() does when it calls the function in the current process.
DirectCall(c) ==
  << [op |-> "get_world_size"],
     [op |-> "get_local_rank", result |-> localRank],
     [op |-> "func", func |-> c.func, local_rank |-> localRank,
      args |-> c.args, kwargs |-> c.kwargs] >>

RECURSIVE DirectCalls(_)
DirectCalls(cs) == IF cs = <<>> THEN <<>> ELSE DirectCall(Head(cs)) \o DirectCalls(Tail(cs))

\* ----------------------------------------------------------------- C1
\* C1: on an attach-mode launcher used as __enter__(); run(fn, x); __exit__(),
\* the acting calls are exactly initialize(backend), fn(local_rank, x) with
\* local_rank the value get_local_rank() returned, and finalize(), in this
\* order, whether fn returned or raised; the only other idist calls of the
\* three methods are the queries get_world_size() and get_local_rank().
C1_ScopedAttachRun ==
  (AttachMode /\ CallOps = <<"enter", "run", "exit">>) =>
     /\ trace = <<QAvail, [op |-> "initialize", backend |-> backend]>>
                  \o DirectCall(calls[2]) \o <<[op |-> "finalize"]>>
     /\ Acting(trace) = << [op |-> "initialize", backend |-> Val(args).backend],
                           [op |-> "func", func |-> calls[2].func, local_rank |-> localRank,
                            args |-> calls[2].args, kwargs |-> calls[2].kwargs],
                           [op |-> "finalize"] >>

C1_Witness ==
  /\ AttachMode
  /\ CallOps = <<"enter", "run", "exit">>
  /\ calls[2].raised
  /\ CountOp(trace, "finalize") = 1

\* ----------------------------------------------------------------- C2
\* C2: between any two initialize calls of the trace there is a finalize call.
C2_NoDoubleInitialize ==
  \A i, j \in DOMAIN trace :
     (i < j /\ trace[i].op = "initialize" /\ trace[j].op = "initialize")
       => \E k \in DOMAIN trace : i < k /\ k < j /\ trace[k].op = "finalize"

\* ----------------------------------------------------------------- C3
\* C3: a constructor call with an available backend, nnodes > 1 and node_rank
\* None raises, and no acting call has been made.
C3_MissingNodeRankRaises ==
  (/\ status # "new"
   /\ Val(args).backend # None
   /\ Val(Val(args).backend) \in AvailableBackends
   /\ Val(args).nnodes # None
   /\ Val(Val(args).nnodes) > 1
   /\ Val(args).node_rank = None)
  => (status = "ValueError" /\ Acting(trace) = <<>>)

\* ----------------------------------------------------------------- C4
SpawnCall(c) ==
  [op |-> "spawn", backend |-> Val(args).backend, func |-> c.func, args |-> c.args,
   kwargs_dict |-> c.kwargs, params |-> Val(spawn_params)]

OnlyProcsGiven(n) ==
  /\ Val(args).nproc_per_node = Some(n)
  /\ Val(args).nnodes = None
  /\ Val(args).node_rank = None
  /\ Val(args).master_addr = None
  /\ Val(args).master_port = None
  /\ Val(args).spawn_kwargs = <<>>

\* C4: on a spawn-mode launcher the trace after construction is one spawn call
\* per run() call, in order, each with the backend, the function, its arguments
\* and the resolved parameters; there is no initialize, finalize or direct
\* function call; with only nproc_per_node=4 given the parameters are exactly
\* nproc_per_node=4, nnodes=1, node_rank=0.
C4_SpawnModeRun ==
  SpawnMode =>
     /\ trace = <<QAvail>> \o [i \in 1..Len(RunCalls) |-> SpawnCall(RunCalls[i])]
     /\ CountOp(trace, "spawn") = Len(RunCalls)
     /\ CountOp(trace, "initialize") = 0
     /\ CountOp(trace, "finalize") = 0
     /\ CountOp(trace, "func") = 0
     /\ OnlyProcsGiven(4) =>
          Val(spawn_params) = [nproc_per_node |-> 4, nnodes |-> 1, node_rank |-> 0]

C4_Witness ==
  /\ SpawnMode
  /\ OnlyProcsGiven(4)
  /\ CallOps = <<"enter", "run", "exit">>
  /\ trace[2].op = "spawn"
  /\ trace[2].params = [nproc_per_node |-> 4, nnodes |-> 1, node_rank |-> 0]

\* ----------------------------------------------------------------- C5
\* C5: on a launcher without backend the attributes keep the values the
\* constructor gave them and the trace is, per run() call, the queries and one
\* direct call fn(local_rank, x): __enter__ and __exit__ add nothing, and
\* there is no spawn.
C5_NoBackendDirectRun ==
  NoBackend =>
     /\ backend = None /\ spawn_params = None /\ logger = "rank0"
     /\ trace = DirectCalls(RunCalls)
     /\ CountOp(trace, "func") = Len(RunCalls)
     /\ CountOp(trace, "spawn") = 0
     /\ \A i \in DOMAIN log : log[i] \in {"Run", "End of run"}

C5_Witness ==
  /\ NoBackend
  /\ CallOps = <<"enter", "run", "exit">>
  /\ CountOp(trace, "func") = 1

\* ----------------------------------------------------------------- C6
\* C6: a constructor call with backend None and some topology argument not
\* None (0 included) raises, and no attribute of the launcher has been set.
C6_NoBackendRejectsTopology ==
  (/\ status # "new"
   /\ Val(args).backend = None
   /\ \E k \in TopologyKeys : Val(args)[k] # None)
  => /\ status = "ValueError"
     /\ backend = None /\ spawn_params = None /\ logger = "unset"
     /\ trace = <<>> /\ calls = <<>>

C6_Witness ==
  /\ status = "ValueError"
  /\ Val(args).backend = None
  /\ Val(args).nnodes = Some(0)
  /\ Val(args).nproc_per_node = None
  /\ Val(args).node_rank = None
  /\ Val(args).master_addr = None
  /\ Val(args).master_port = None

\* ----------------------------------------------------------------- C7
OrElse(o, d) == IF o = None THEN d ELSE Val(o)

\* The conditions under which spawn-mode construction is to succeed.
ValidTopology(a) ==
  /\ Val(a.nproc_per_node) >= 1
  /\ OrElse(a.nnodes, 1) >= 1
  /\ (a.node_rank # None \/ OrElse(a.nnodes, 1) = 1)
  /\ 0 <= OrElse(a.node_rank, 0)
  /\ OrElse(a.node_rank, 0) < OrElse(a.nnodes, 1)
  /\ (OrElse(a.nnodes, 1) > 1 => (a.master_addr # None /\ a.master_port # None))

InSpawnCtor ==
  /\ status # "new"
  /\ Val(args).backend # None
  /\ Val(Val(args).backend) \in AvailableBackends
  /\ Val(args).nproc_per_node # None

Get(p, k) == IF k \in DOMAIN p THEN Some(p[k]) ELSE None

\* _setup_spawn_params applied to a resolved parameter dict.
Revalidate(p) ==
  SetupSpawnParams(p["nproc_per_node"], Get(p, "nnodes"), Get(p, "node_rank"),
                   Get(p, "master_addr"), Get(p, "master_port"),
                   [k \in (DOMAIN p) \ TopologyKeys |-> Some(p[k])])

\* C8: the parameters a successful validation resolved validate again, to
\* the same parameters.
C8_ValidationIdempotent ==
  SpawnMode =>
     /\ Revalidate(Val(spawn_params)).ok
     /\ Revalidate(Val(spawn_params)).params = Val(spawn_params)

C8_Witness ==
  /\ SpawnMode
  /\ Val(args).nnodes = None
  /\ Val(args).node_rank = None
  /\ Val(args).master_addr = None
  /\ \E k \in DOMAIN Val(args).spawn_kwargs : Val(args).spawn_kwargs[k] = None
  /\ \E k \in DOMAIN Val(args).spawn_kwargs : Val(args).spawn_kwargs[k] # None

\* ----------------------------------------------------------------- C9
\* C9: every spawn call carries each extra option given to the constructor,
\* with the value given (None included), and the topology fields as validated.
C9_ExtrasForwardedVerbatim ==
  SpawnMode =>
    \A i \in DOMAIN trace :
      trace[i].op = "spawn" =>
        LET p == trace[i].params
            kw == Val(args).spawn_kwargs
        IN /\ \A k \in DOMAIN kw : k \in DOMAIN p /\ Get(p, k) = kw[k]
           /\ p["nproc_per_node"] = Val(Val(args).nproc_per_node)
           /\ p["nnodes"] = OrElse(Val(args).nnodes, 1)
           /\ p["node_rank"] = OrElse(Val(args).node_rank, 0)

\* ---------------------------------------------------------------- C10
\* C10: at every point there are at most as many finalize calls as
\* initialize calls.
C10_FinalizeOnlyWhileActive ==
  CountOp(trace, "finalize") <= CountOp(trace, "initialize")
====
